---- MODULE Spec2Model ----
(***************************************************************************)
(* sqlite-job: a job queue kept in one SQLite database.                    *)
(*                                                                         *)
(* Producers (SQLiteJob.enqueue / get_job_result, connections.py) and      *)
(* workers (Worker.run / _get_job_id / _process_job, worker.py) share the  *)
(* two tables of models.py.  Every `with get_session()` block of the       *)
(* source is a session of db.py: its SELECT is one atomic read of the      *)
(* committed store, and the UPDATE/INSERT it flushes becomes visible to    *)
(* the other processes at the commit that ends the block.  A read and the  *)
(* write that follows it are therefore two steps: the driver opens no      *)
(* transaction for a SELECT, so other sessions may commit in between.      *)
(*                                                                         *)
(* The call signatures of worker.py and connections.py are taken as        *)
(* matching (worker.py passes a settings argument that connections.py      *)
(* does not declare); the model follows the control and data flow of the   *)
(* method bodies.                                                          *)
(***************************************************************************)
EXTENDS Integers, Sequences, FiniteSets, TLC

\* ------------------------------------------------------------------ bounds
\* Number of job rows the producers may insert in one run.
MaxJobs == 2
\* Length of the allow-lists that get_function is applied to.
MaxFuncs == 3
\* The latest time datetime.utcnow() gets to.
MaxTime == 2
\* Number of get_session blocks run on one database path.
MaxSessions == 2

\* ------------------------------------------------------- processes, names
Workers == {"w1", "w2"}
\* With a third worker process, which only runs in SpecRace.
RaceWorkers == Workers \cup {"w3"}
Clients == {"c1", "c2"}
QueueNames == {"A", "B"}
\* Job ids are str(uuid4()); IdSpace holds one id more than can be inserted,
\* so that an id no row carries always exists.
IdSpace == 1..(MaxJobs + 1)

\* models.py JobStatus
PENDING == "pending"
RUNNING == "running"
COMPLETED == "completed"
FAILED == "failed"
JobStatus == {PENDING, RUNNING, COMPLETED, FAILED}

\* ---------------------------------------------------------- python values
\* Values are tagged so that an int, None, bytes and a raised error are
\* pairwise different.
PyNone == [none |-> TRUE]
PyInt(n) == [int |-> n]
PyStr(x) == [str |-> x]
PyErr(name) == [error |-> name]
IsErr(v) == DOMAIN v = {"error"}

\* pickle.dumps(x): a bytes object, different from x itself.
Dumps(x) == [pickled |-> x]
\* pickle.loads(b)
Loads(b) == b.pickled
IsBytes(v) == DOMAIN v = {"pickled"}

\* ------------------------------------------------------ functions to run
\* A function path is the sequence of its dot-separated segments:
\* "mod.add" is <<"mod", "add">>, "add" is <<"add">>.
\* The modules importlib.import_module finds are mod and the package pkg
\* with its module pkg.mod; every other name raises ImportError.
Modules == {<<"mod">>, <<"pkg">>, <<"pkg", "mod">>}
ModuleAttrs(m) ==
  CASE m = <<"mod">>        -> {"add", "boom", "flaky"}
    [] m = <<"pkg", "mod">> -> {"twice"}
    [] OTHER                -> {}

\* kwargs are sets of <<name, value>> pairs.
NoKwargs == {}

\* The invocations the producers enqueue: add(1, b=2), which returns the sum
\* of its arguments, and boom(), which raises.
Calls ==
  { [f |-> <<"mod", "add">>,  args |-> <<1>>, kwargs |-> {<<"b", 2>>}],
    [f |-> <<"mod", "boom">>, args |-> <<>>,  kwargs |-> NoKwargs] }

RECURSIVE SumSeq(_)
SumSeq(s) == IF s = <<>> THEN 0 ELSE Head(s) + SumSeq(Tail(s))

RECURSIVE SumKw(_)
SumKw(kw) ==
  IF kw = {} THEN 0
  ELSE LET p == CHOOSE p \in kw : TRUE IN p[2] + SumKw(kw \ {p})

\* The invocations of SpecRace: add(1, b=2) and flaky(), which returns 0 on
\* one invocation and raises on another.
RaceCalls ==
  { [f |-> <<"mod", "add">>,   args |-> <<1>>, kwargs |-> {<<"b", 2>>}],
    [f |-> <<"mod", "flaky">>, args |-> <<>>,  kwargs |-> NoKwargs] }

\* Invocations whose function cannot be resolved: an attribute the module
\* lacks, a module that cannot be imported, a name without a dot.
UnresolvableCalls ==
  { [f |-> <<"mod", "gone">>,  args |-> <<>>,  kwargs |-> NoKwargs],
    [f |-> <<"nomod", "add">>, args |-> <<1>>, kwargs |-> NoKwargs],
    [f |-> <<"add">>,          args |-> <<1>>, kwargs |-> {<<"b", 2>>}] }
\* The invocations of SpecResolve.
ResolveCalls ==
  UnresolvableCalls
    \cup { [f |-> <<"mod", "add">>, args |-> <<1>>, kwargs |-> {<<"b", 2>>}] }

\* The invocations of SpecLookup: those of SpecResolve, boom(), twice(2) of
\* the module pkg.mod, and add(1) of pkg.mod, which has no add.
LookupCalls ==
  ResolveCalls
    \cup { [f |-> <<"mod", "boom">>,         args |-> <<>>,  kwargs |-> NoKwargs],
           [f |-> <<"pkg", "mod", "twice">>, args |-> <<2>>, kwargs |-> NoKwargs],
           [f |-> <<"pkg", "mod", "add">>,   args |-> <<1>>, kwargs |-> NoKwargs] }

\* The invocation of FairProgress: add(1, b=2), which resolves and returns.
ProgressCalls ==
  { [f |-> <<"mod", "add">>, args |-> <<1>>, kwargs |-> {<<"b", 2>>}] }

\* What function(*args, **kwargs) produces: add returns the sum of its
\* arguments, twice the double of them, boom raises, flaky does either.
Outcomes(fn, args, kwargs) ==
  CASE fn = "add"   -> {PyInt(SumSeq(args) + SumKw(kwargs))}
    [] fn = "twice" -> {PyInt(2 * SumSeq(args))}
    [] fn = "boom"  -> {PyErr("ValueError")}
    [] fn = "flaky" -> {PyInt(0), PyErr("ValueError")}
    [] OTHER        -> {PyErr("TypeError")}

\* ------------------------------------------------------------------ state
VARIABLES
  queues,      \* table queues: per name, the number of rows that carry it
  jobs,        \* table jobs: id -> row
  worker,      \* per worker: queue_name, position in run/_process_job, locals
  client,      \* per client: default_queue_name, position in enqueue, locals
  ret,         \* what the producer call that just returned handed back
  hist,        \* history: per job, the sequence of values its status took
  execs,       \* history: per job, the number of invocations of its function
  returned,    \* history: per job, the values its invocations returned
  claimers,    \* history: per job, the workers that polled and then claimed it
  resultWrites,\* history: per job, the number of UPDATEs that set its result
  given,       \* history: per job, the invocation its enqueue call was given
  raised,      \* history: per job, the number of its invocations that raised
  sawPending,  \* history: the workers whose _process_job loaded a PENDING row
  rows,        \* get_session: per key, the committed value
  scope,       \* get_session: per `with` block, whether open and its changes
  cleanWrites, \* history: the <<key, value>> changes of blocks left normally
  functions,   \* WorkerSettings.functions: the allow-list
  lookup,      \* what the last get_function call was asked and handed back
  built,       \* what constructing the settings and the worker came to
  stamps,      \* table jobs: per job, the columns created_at and updated_at
  clock,       \* datetime.utcnow()
  completers,  \* history: per job, the workers that left its second session
  db           \* db.py: _engines, _tables_created and the database files

store == <<queues, jobs, stamps>>
history == <<hist, execs, returned, claimers, resultWrites, given, raised,
             sawPending, completers>>
\* The state of db.get_session blocks and of a WorkerSettings.
aux == <<rows, scope, cleanWrites, functions, lookup, built, clock, db>>

vars == <<store, worker, client, ret, history, aux>>

JobIds == DOMAIN jobs

\* A row of table jobs (models.py Job), found under its id; the timestamps
\* of the row are in stamps.
JobRow(payload, q) ==
  [function |-> payload, result |-> PyNone, status |-> PENDING, queue_name |-> q]

NoRow == [absent |-> TRUE]
NoData == [nodata |-> TRUE]

\* Worker.__init__, lines 11-14; the locals of run and _process_job are empty.
NewWorker(q) ==
  [queue_name |-> q, pc |-> "poll", job_id |-> 0,
   loaded |-> NoRow, data |-> NoData, call |-> NoData, result |-> PyNone,
   err |-> "none", in_session |-> FALSE, sessions |-> 0]

\* _process_job, lines 40 and 53: `with get_session(...) as session` is
\* entered; sessions counts the sessions of the current _process_job call.
OpenSession(wr) == [wr EXCEPT !.in_session = TRUE, !.sessions = @ + 1]
\* The with block of line 40 is left (db.py lines 33-35: commit, close).
KeepSession(wr) == wr
CloseSession(wr) == [wr EXCEPT !.in_session = FALSE]

\* SQLiteJob.__init__, lines 9-10; the locals of enqueue are empty.
NewClient(q) ==
  [default_queue_name |-> q, pc |-> "idle", call |-> NoData,
   pickled_data |-> NoData, found |-> FALSE]

\* No producer call returned in the last step.
NoRet == [nothing |-> TRUE]
\* A producer's call op(arg) returned val (or raised it); seen is the row a
\* get_job_result read.
Returned(op, arg, seen, val) ==
  [op |-> op, arg |-> arg, seen |-> seen, val |-> val]

\* ------------------------------------------- sessions and allow-lists
\* The database paths get_engine and get_session are called with.
Paths == {"p1", "p2"}
\* The `with get_session()` blocks, the keys they change and the values
\* they assign; a key holds 0 until a change to it is committed, and a
\* block's pending value 0 stands for no change.  left tells how the block
\* was last left.
Scopes == {"s1", "s2"}
Keys == {"k1", "k2"}
Vals == {1, 2}
ClosedScope ==
  [open |-> FALSE, pending |-> [k \in Keys |-> 0], left |-> "never"]

\* Functions by their __name__ and the object they are: example.py's add
\* and delayed_add, and another function that is also named add.
Add == [name |-> "add", obj |-> "example.add"]
DelayedAdd == [name |-> "delayed_add", obj |-> "example.delayed_add"]
OtherAdd == [name |-> "add", obj |-> "other.add"]
FuncObjs == {Add, DelayedAdd, OtherAdd}
\* example.py line 18
ExampleFunctions == <<Add, DelayedAdd>>
LookupNames == {"add", "delayed_add", "nope"}
NoLookup == [nothing |-> TRUE]

\* Nothing constructed yet; declared tells whether the settings class
\* defines the attribute functions at all.
NotBuilt(declared) ==
  [declared |-> declared, settings |-> "none", worker |-> "none"]

\* ------------------------------------------------------- initial states
\* An empty database, no call made yet.
InitStore ==
  /\ queues = [n \in QueueNames |-> 0]
  /\ jobs = <<>>
  /\ ret = NoRet
  /\ hist = <<>>
  /\ execs = <<>>
  /\ returned = <<>>
  /\ claimers = <<>>
  /\ resultWrites = <<>>
  /\ given = <<>>
  /\ raised = <<>>
  /\ sawPending = {}
  /\ completers = <<>>
  /\ stamps = <<>>
  /\ clock = 0

\* No block open, nothing committed.
InitScopes ==
  /\ rows = [k \in Keys |-> 0]
  /\ scope = [s \in Scopes |-> ClosedScope]
  /\ cleanWrites = {}

\* db.py lines 7-8 at import: no engine, no path with tables created; a
\* database file holds `data` rows, and tables if it holds rows.
NewDb(data) ==
  [engines |-> [p \in Paths |-> 0],
   tables_created |-> {},
   creates |-> [p \in Paths |-> 0],
   sessions |-> [p \in Paths |-> 0],
   schema |-> [p \in Paths |-> data[p] > 0],
   data |-> data,
   asked |-> "none",
   handed |-> 0]

InitSessions ==
  /\ InitScopes
  /\ db = NewDb([p \in Paths |-> 0])

\* example.py's MyWorkerSettings, get_function not called yet.
InitSettings ==
  /\ functions = ExampleFunctions
  /\ lookup = NoLookup
  /\ built = NotBuilt(TRUE)

\* The first worker serves queue "A", the second either queue and the third
\* "A"; one producer enqueues to "A" and the other to "B".
Init ==
  /\ InitStore
  /\ worker \in [RaceWorkers -> {NewWorker(q) : q \in QueueNames}]
  /\ worker["w1"].queue_name = "A"
  /\ worker["w3"].queue_name = "A"
  /\ client \in [Clients -> {NewClient(q) : q \in QueueNames}]
  /\ client["c1"].default_queue_name = "A"
  /\ client["c2"].default_queue_name = "B"
  /\ InitSessions
  /\ InitSettings

\* ------------------------------------------------- producer: SQLiteJob
\* uuid.uuid4(): an id no row carries yet.
FreshId(used) == CHOOSE i \in IdSpace \ used : \A k \in IdSpace \ used : i <= k

\* Rows being inserted by enqueue calls that have not returned yet.
InFlight == {c \in Clients : client[c].pc # "idle"}

\* enqueue, line 13: the dict that is pickled.
PayloadNoKwargs(call) ==
  [f |-> call.f, args |-> call.args, kwargs |-> NoKwargs]
Payload(call) ==
  [f |-> call.f, args |-> call.args, kwargs |-> call.kwargs]

\* enqueue, lines 13-21: pickle the invocation, then SELECT the queue row
\* in the first session.
EnqueueStart(c, call) ==
  /\ client[c].pc = "idle"
  /\ Cardinality(JobIds) + Cardinality(InFlight) < MaxJobs
  /\ client' = [client EXCEPT ![c] =
       [@ EXCEPT !.pc = "ensure", !.call = call,
                 !.pickled_data = Dumps(Payload(call)),
                 !.found = (queues[client[c].default_queue_name] > 0)]]
  /\ ret' = NoRet
  /\ UNCHANGED <<store, worker, history, aux>>

\* models.py line 35, name = Column(String, primary_key=True): an INSERT of
\* a name that a row carries already is rejected.
UniqueNotEnforced(qs, q) == FALSE
UniqueViolated(qs, q) == qs[q] > 0

\* enqueue, lines 22-24: session.add(Queue(name=...)), committed.
WithoutQueue(qs, q) == qs
WithQueue(qs, q) == [qs EXCEPT ![q] = @ + 1]

\* enqueue, lines 22-24 and the commit that ends the first session: INSERT
\* the queue row when the SELECT found none.  The primary key rejects a name
\* that another session inserted meanwhile; the error leaves enqueue.
EnqueueEnsureQueue(c) ==
  /\ client[c].pc = "ensure"
  /\ LET q == client[c].default_queue_name IN
     IF client[c].found
       THEN /\ client' = [client EXCEPT ![c].pc = "insert"]
            /\ ret' = NoRet
            /\ UNCHANGED queues
       ELSE IF UniqueViolated(queues, q)
         THEN /\ client' = [client EXCEPT ![c] = NewClient(q)]
              /\ ret' = Returned("enqueue", client[c].call, NoRow,
                                 PyErr("IntegrityError"))
              /\ UNCHANGED queues
         ELSE /\ queues' = WithQueue(queues, q)
              /\ client' = [client EXCEPT ![c].pc = "insert"]
              /\ ret' = NoRet
  /\ UNCHANGED <<jobs, stamps, worker, history, aux>>

\* The producer's process dies inside enqueue.  A session that was not
\* committed leaves nothing behind, so the tables hold what the sessions
\* committed before: nothing, or the queue row of the first session.
EnqueueCrash(c) ==
  /\ client[c].pc \in {"ensure", "insert"}
  /\ client' = [client EXCEPT ![c] =
       [NewClient(client[c].default_queue_name) EXCEPT
          !.pc = IF client[c].pc = "ensure" THEN "crashed in ensure"
                                           ELSE "crashed before insert"]]
  /\ ret' = NoRet
  /\ UNCHANGED <<store, worker, history, aux>>

\* models.py lines 28-29: both columns default to the time of the INSERT;
\* updated_at has no onupdate, so no UPDATE assigns it.
NewStamps(now) == [created_at |-> now, updated_at |-> now]

\* The row enqueue adds (lines 27-31).
NewJobRunning(payload, q) == [JobRow(payload, q) EXCEPT !.status = RUNNING]
NewJob(payload, q) == JobRow(payload, q)

\* enqueue, lines 26-36: the second session INSERTs the job and the call
\* returns its id.
EnqueueInsertJob(c) ==
  /\ client[c].pc = "insert"
  /\ LET id == FreshId(JobIds) IN
     /\ jobs' = [j \in JobIds \cup {id} |->
                   IF j = id
                     THEN NewJob(client[c].pickled_data,
                                 client[c].default_queue_name)
                     ELSE jobs[j]]
     /\ client' = [client EXCEPT ![c] = NewClient(client[c].default_queue_name)]
     /\ ret' = Returned("enqueue", client[c].call, NoRow, PyStr(id))
     /\ hist' = [j \in JobIds \cup {id} |->
                   IF j \in JobIds /\ j # id THEN hist[j] ELSE <<PENDING>>]
     /\ execs' = [j \in JobIds \cup {id} |->
                   IF j \in JobIds /\ j # id THEN execs[j] ELSE 0]
     /\ returned' = [j \in JobIds \cup {id} |->
                   IF j \in JobIds /\ j # id THEN returned[j] ELSE {}]
     /\ claimers' = [j \in JobIds \cup {id} |->
                   IF j \in JobIds /\ j # id THEN claimers[j] ELSE {}]
     /\ resultWrites' = [j \in JobIds \cup {id} |->
                   IF j \in JobIds /\ j # id THEN resultWrites[j] ELSE 0]
     /\ given' = [j \in JobIds \cup {id} |->
                   IF j \in JobIds /\ j # id THEN given[j] ELSE client[c].call]
     /\ raised' = [j \in JobIds \cup {id} |->
                   IF j \in JobIds /\ j # id THEN raised[j] ELSE 0]
     /\ completers' = [j \in JobIds \cup {id} |->
                   IF j \in JobIds /\ j # id THEN completers[j] ELSE {}]
     /\ stamps' = [j \in JobIds \cup {id} |->
                   IF j \in JobIds /\ j # id THEN stamps[j] ELSE NewStamps(clock)]
  /\ UNCHANGED <<queues, worker, sawPending, aux>>

\* session.query(Job).filter(Job.id == job_id).first()
JobByIdOrBlank(id) ==
  IF id \in JobIds THEN jobs[id] ELSE JobRow(NoData, "A")
JobByIdUnfinished(id) ==
  IF id \in JobIds /\ jobs[id].status # COMPLETED THEN jobs[id] ELSE NoRow
JobById(id) == IF id \in JobIds THEN jobs[id] ELSE NoRow

\* get_job_result, lines 65-67: what the call hands back for the row read.
ResultMissingAsNone(row) ==
  IF row = NoRow THEN PyNone ELSE row.result
ResultPendingRaises(row) ==
  IF row = NoRow \/ row.result = PyNone THEN PyErr("ValueError") ELSE row.result
ResultDecoded(row) ==
  IF row = NoRow THEN PyErr("ValueError")
  ELSE IF IsBytes(row.result) THEN Loads(row.result) ELSE row.result
ResultOf(row) ==
  IF row = NoRow THEN PyErr("ValueError") ELSE row.result

\* get_job_result, lines 62-67: one session, one SELECT, nothing written.
GetJobResult(c, id) ==
  /\ client[c].pc = "idle"
  /\ ret' = Returned("get_job_result", id, JobById(id),
                     ResultOf(JobById(id)))
  /\ UNCHANGED <<store, worker, client, history, aux>>

\* ------------------------------------------------------- consumer: Worker
\* _get_job_id, lines 26-33: the rows the query matches; first() takes one
\* of them, in no order the query fixes.
PollAnyQueue(q) == {j \in JobIds : jobs[j].status = PENDING}
PollAnyStatus(q) == {j \in JobIds : jobs[j].queue_name = q}
PollNothing(q) == {}
PollMatches(q) ==
  {j \in JobIds : jobs[j].status = PENDING /\ jobs[j].queue_name = q}

\* An error leaves _process_job and run: the worker stops.
Raise(w, name) ==
  [NewWorker(worker[w].queue_name) EXCEPT
     !.pc = "crashed", !.err = name, !.job_id = worker[w].job_id]

\* _get_job_id, lines 25-36: the session assigns nothing to the row it
\* found, so its commit leaves table jobs as it is.
PollClaims(js, j) == [js EXCEPT ![j].status = RUNNING]
AfterPoll(js, j) == js

\* run, lines 17-21, with _get_job_id, lines 24-36: poll; without a job the
\* loop goes to sleep, with one it enters _process_job.
GetJobId(w) ==
  /\ worker[w].pc = "poll"
  /\ LET m == PollMatches(worker[w].queue_name) IN
     IF m = {}
       THEN /\ worker' = [worker EXCEPT ![w].pc = "sleep"]
            /\ jobs' = jobs
       ELSE \E j \in m :
              /\ worker' = [worker EXCEPT ![w] =
                   [@ EXCEPT !.pc = "claim", !.job_id = j]]
              /\ jobs' = AfterPoll(jobs, j)
  /\ UNCHANGED <<queues, stamps, client, history, aux>>
  /\ ret' = NoRet

\* run, line 20: time.sleep(1) ends and the loop polls again.
Wake(w) ==
  /\ worker[w].pc = "sleep"
  /\ worker' = [worker EXCEPT ![w].pc = "poll"]
  /\ UNCHANGED <<store, client, history, aux>>
  /\ ret' = NoRet

\* _process_job, line 41: SELECT the row by id in the first session.  With
\* no row, line 42 assigns to None and raises.
ClaimSelectRow(w) ==
  /\ worker[w].pc = "claim"
  /\ LET row == JobById(worker[w].job_id) IN
     IF row = NoRow
       THEN worker' = [worker EXCEPT ![w] = Raise(w, "AttributeError")]
       ELSE worker' = [worker EXCEPT ![w] =
              OpenSession([@ EXCEPT !.pc = "claim_flush", !.loaded = row])]
  /\ UNCHANGED <<store, client, aux>>
  /\ ret' = NoRet

\* _process_job(job_id), line 38, called from outside run() with any id, on
\* a worker that is in no call (the last one returned or raised).
Process(w, id) ==
  /\ worker[w].pc \in {"poll", "crashed"}
  /\ worker' = [worker EXCEPT ![w] =
       [NewWorker(worker[w].queue_name) EXCEPT !.pc = "claim", !.job_id = id]]
  /\ UNCHANGED <<store, client, history, aux>>
  /\ ret' = NoRet

\* _process_job, line 41, as a step of run().
ClaimSelect(w) ==
  /\ ClaimSelectRow(w)
  /\ UNCHANGED history

\* The same step, recording whether the row was loaded as PENDING.
RaceClaimSelect(w) ==
  /\ ClaimSelectRow(w)
  /\ sawPending' =
       IF JobById(worker[w].job_id) # NoRow
          /\ JobById(worker[w].job_id).status = PENDING
         THEN sawPending \cup {w}
         ELSE sawPending \ {w}
  /\ UNCHANGED <<hist, execs, returned, claimers, resultWrites, given, raised,
               completers>>

\* The UPDATE a flush emits for a row loaded as `loaded` and changed to
\* `changed`: the columns whose value differs, WHERE id = the row's id; the
\* other columns keep what the store holds now.
FlushWholeRow(cur, loaded, changed) == changed
Flush(cur, loaded, changed) ==
  [col \in DOMAIN cur |->
     IF changed[col] # loaded[col] THEN changed[col] ELSE cur[col]]

\* _process_job, line 42: the assignment made to the loaded row.
UnclaimedRow(row) == row
ClaimedRow(row) == [row EXCEPT !.status = RUNNING]

\* history of a job's status: extended when an UPDATE changes the value.
HistAfter(j, new) ==
  IF new.status # jobs[j].status
    THEN [hist EXCEPT ![j] = Append(@, new.status)]
    ELSE hist

\* _process_job, line 45: the first session hands the payload of the row to
\* the rest of _process_job, which goes on to line 48.
PollAfterClaim(wr) ==
  [wr EXCEPT !.pc = "poll", !.loaded = NoRow, !.data = NoData]
AfterClaim(wr) ==
  [wr EXCEPT !.pc = "resolve", !.loaded = NoRow, !.data = wr.loaded.function]

\* _process_job, lines 42-45 and the commit of the first session: set
\* RUNNING, flush, keep the payload that was loaded.
ClaimFlush(w) ==
  /\ worker[w].pc = "claim_flush"
  /\ LET j == worker[w].job_id
         new == Flush(jobs[j], worker[w].loaded, ClaimedRow(worker[w].loaded))
     IN
     /\ jobs' = [jobs EXCEPT ![j] = new]
     /\ hist' = HistAfter(j, new)
     /\ claimers' = [claimers EXCEPT ![j] = @ \cup {w}]
     /\ worker' = [worker EXCEPT ![w] = CloseSession(AfterClaim(@))]
  /\ ret' = NoRet
  /\ UNCHANGED <<queues, stamps, client, execs, returned, resultWrites, given,
               raised, sawPending, completers, aux>>

\* deserialize_job without the checks of lines 45-46 and 52-58.
DeserializeUnchecked(data) ==
  LET d == Loads(data) IN
    [function |-> d.f[Len(d.f)], args |-> d.args, kwargs |-> d.kwargs]

\* deserialize_job with line 49 splitting at the first dot.
DeserializeFirstDot(data) ==
  LET d == Loads(data)
      path == d.f
  IN IF Len(path) < 2
       THEN PyErr("ValueError")
     ELSE LET module_name == SubSeq(path, 1, 1)
              function_name == path[2]
          IN IF module_name \notin Modules
                  \/ function_name \notin ModuleAttrs(module_name)
               THEN PyErr("ValueError")
               ELSE [function |-> function_name, args |-> d.args,
                     kwargs |-> d.kwargs]

\* deserialize_job, lines 39-60: unpickle, split the path at its last dot,
\* import the module and look the attribute up.
Deserialize(data) ==
  LET d == Loads(data)
      path == d.f
  IN IF Len(path) < 2
       THEN PyErr("ValueError")
     ELSE LET module_name == SubSeq(path, 1, Len(path) - 1)
              function_name == path[Len(path)]
          IN IF module_name \notin Modules
                  \/ function_name \notin ModuleAttrs(module_name)
               THEN PyErr("ValueError")
               ELSE [function |-> function_name, args |-> d.args,
                     kwargs |-> d.kwargs]

\* _process_job, line 48: decode and resolve, outside any session.
Resolve(w) ==
  /\ worker[w].pc = "resolve"
  /\ LET r == Deserialize(worker[w].data) IN
     IF IsErr(r)
       THEN worker' = [worker EXCEPT ![w] = Raise(w, r.error)]
       ELSE worker' = [worker EXCEPT ![w].pc = "execute", ![w].call = r,
                                     ![w].data = NoData]
  /\ UNCHANGED <<store, client, history, aux>>
  /\ ret' = NoRet

\* _process_job, line 51: result = function(*args, **kwargs).
Execute(w) ==
  /\ worker[w].pc = "execute"
  /\ LET c == worker[w].call
         j == worker[w].job_id
     IN \E v \in Outcomes(c.function, c.args, c.kwargs) :
          /\ execs' = [execs EXCEPT ![j] = @ + 1]
          /\ IF IsErr(v)
               THEN /\ worker' = [worker EXCEPT ![w] = Raise(w, v.error)]
                    /\ raised' = [raised EXCEPT ![j] = @ + 1]
                    /\ UNCHANGED returned
               ELSE /\ worker' = [worker EXCEPT ![w].pc = "complete",
                                                ![w].call = NoData,
                                                ![w].result = v]
                    /\ returned' = [returned EXCEPT ![j] = @ \cup {v}]
                    /\ UNCHANGED raised
  /\ ret' = NoRet
  /\ UNCHANGED <<store, client, hist, claimers, resultWrites, given,
               sawPending, completers, aux>>

\* _process_job, line 54: SELECT the row again in the second session.
CompleteSelect(w) ==
  /\ worker[w].pc = "complete"
  /\ worker' = [worker EXCEPT ![w] =
       OpenSession([@ EXCEPT !.pc = "complete_flush",
                             !.loaded = JobById(worker[w].job_id)])]
  /\ UNCHANGED <<store, client, history, aux>>
  /\ ret' = NoRet

\* _process_job, lines 55-56: the assignments made to the loaded row.
CompletedRowRaw(row, v) == [row EXCEPT !.status = COMPLETED, !.result = v]
StillRunningRow(row, v) == [row EXCEPT !.result = Dumps(v)]
FailedRow(row, v) == [row EXCEPT !.status = FAILED, !.result = Dumps(v)]
CompletedRow(row, v) ==
  [row EXCEPT !.status = COMPLETED, !.result = Dumps(v)]

\* run, lines 17-22: _process_job returned, the loop polls again.
StopAfterProcess(q) == [NewWorker(q) EXCEPT !.pc = "returned"]
AfterProcess(q) == NewWorker(q)

\* _process_job, lines 55-58 and the commit of the second session.
CompleteFlush(w) ==
  /\ worker[w].pc = "complete_flush"
  /\ LET j == worker[w].job_id
         changed == CompletedRow(worker[w].loaded, worker[w].result)
         new == Flush(jobs[j], worker[w].loaded, changed)
     IN
     /\ jobs' = [jobs EXCEPT ![j] = new]
     /\ hist' = HistAfter(j, new)
     /\ resultWrites' = IF changed.result # worker[w].loaded.result
                          THEN [resultWrites EXCEPT ![j] = @ + 1]
                          ELSE resultWrites
     /\ completers' = [completers EXCEPT ![j] = @ \cup {w}]
     /\ worker' = [worker EXCEPT ![w] = AfterProcess(worker[w].queue_name)]
  /\ ret' = NoRet
  /\ UNCHANGED <<queues, stamps, client, execs, returned, claimers, given,
               raised, sawPending, aux>>

\* ------------------------------------------------------- db.get_session
\* get_session, lines 29-32: a new Session, handed to the `with` block.
SessionOpen(s) ==
  /\ ~scope[s].open
  /\ scope' = [scope EXCEPT ![s] = [ClosedScope EXCEPT !.open = TRUE]]
  /\ UNCHANGED <<store, worker, client, ret, history, rows, cleanWrites,
                 functions, lookup, built, clock,
                 db>>

\* The block changes an object through its session: pending until a commit.
SessionChange(s, k, v) ==
  /\ scope[s].open
  /\ scope' = [scope EXCEPT ![s].pending[k] = v]
  /\ UNCHANGED <<store, worker, client, ret, history, rows, cleanWrites,
                 functions, lookup, built, clock,
                 db>>

\* session.commit(): the pending changes become the committed values.
Committed(s) ==
  [k \in Keys |-> IF scope[s].pending[k] # 0 THEN scope[s].pending[k]
                                            ELSE rows[k]]

\* get_session, lines 33-35: the block is left, normally or by an error that
\* it raised; the finally clause commits and closes in both cases.
SessionExit(s, error) ==
  /\ scope[s].open
  /\ rows' = Committed(s)
  /\ scope' = [scope EXCEPT ![s] =
       [ClosedScope EXCEPT !.left = IF error THEN "by error" ELSE "normally"]]
  /\ cleanWrites' =
       IF error THEN cleanWrites
       ELSE cleanWrites
              \cup {<<k, scope[s].pending[k]>> : k \in {x \in Keys : scope[s].pending[x] # 0}}
  /\ UNCHANGED <<store, worker, client, ret, history, functions, lookup,
                 built, clock,
                 db>>

\* -------------------------------------------------------- WorkerSettings
\* get_function, line 11: the dict comprehension; of two functions with the
\* same __name__ the later one of the list stays.
FunctionMap(fs) ==
  [n \in {fs[i].name : i \in 1..Len(fs)} |->
     fs[CHOOSE i \in 1..Len(fs) :
          /\ fs[i].name = n
          /\ \A k \in 1..Len(fs) : fs[k].name = n => k <= i]]

\* A lookup by name among all functions there are, allow-listed or not.
GetFunctionAnywhere(fs, name) ==
  IF \E f \in FuncObjs : f.name = name
    THEN CHOOSE f \in FuncObjs : f.name = name
    ELSE PyErr("ValueError")
\* get_function, lines 10-14.
GetFunction(fs, name) ==
  IF name \notin DOMAIN FunctionMap(fs)
    THEN PyErr("ValueError")
    ELSE FunctionMap(fs)[name]

\* A call settings.get_function(name).
CallGetFunction(name) ==
  /\ lookup' = [name |-> name, val |-> GetFunction(functions, name)]
  /\ UNCHANGED <<store, worker, client, ret, history, rows, scope,
                 cleanWrites, functions, built, clock,
                 db>>

\* WorkerSettings.__init__, settings.py lines 4-8: the constructor raises
\* ValueError when the class defines no attribute functions; it does not
\* look at the list.
NewSettings ==
  /\ built.settings = "none"
  /\ built' = [built EXCEPT !.settings =
                 IF built.declared THEN "ok" ELSE "ValueError"]
  /\ UNCHANGED <<store, worker, client, ret, history, rows, scope,
                 cleanWrites, functions, lookup, clock,
                 db>>

\* Worker.__init__, worker.py lines 11-14: keeps the queue name and the
\* settings it is given and makes its SQLiteJob; it reads nothing of the
\* settings and opens no session.
ConstructWorker(q) ==
  /\ built.settings = "ok"
  /\ built.worker = "none"
  /\ built' = [built EXCEPT !.worker = q]
  /\ UNCHANGED <<store, worker, client, ret, history, rows, scope,
                 cleanWrites, functions, lookup, clock,
                 db>>

\* Time passes: datetime.utcnow() gives a later value from now on.
Tick ==
  /\ clock < MaxTime
  /\ clock' = clock + 1
  /\ UNCHANGED <<store, worker, client, ret, history, rows, scope,
                 cleanWrites, functions, lookup, built,
                 db>>

\* get_engine, lines 10-14: the engine cached for the path, made by
\* create_engine when there is none; a new engine is a new object.
EnginesWith(engines, p) ==
  IF engines[p] # 0 THEN engines
  ELSE [engines EXCEPT ![p] = Cardinality({q \in Paths : engines[q] # 0}) + 1]

\* get_session, line 27.
Forget(paths, p) == paths
Remember(paths, p) == paths \cup {p}

\* create_tables, models.py lines 40-43: create_all makes the tables that
\* are missing and leaves the rows of those that exist.
CreateTables(d, p) ==
  [d EXCEPT !.engines = EnginesWith(d.engines, p),
            !.schema[p] = TRUE,
            !.creates[p] = @ + 1]

\* get_engine(p) called by itself.
GetEngine(p) ==
  /\ db' = [db EXCEPT !.engines = EnginesWith(db.engines, p),
                      !.asked = p,
                      !.handed = EnginesWith(db.engines, p)[p]]
  /\ UNCHANGED <<store, worker, client, ret, history, rows, scope,
                 cleanWrites, functions, lookup, built, clock>>

\* One `with get_session(p)` block, lines 21-35: tables are created when the
\* path is not in _tables_created, the engine is fetched, a session is made,
\* the block adds `n` rows, and the commit writes them.
GetSession(p, n) ==
  /\ db.sessions[p] < MaxSessions
  /\ LET d1 == IF p \in db.tables_created THEN db
               ELSE [CreateTables(db, p) EXCEPT
                       !.tables_created = Remember(@, p)]
         d2 == [d1 EXCEPT !.engines = EnginesWith(d1.engines, p)]
     IN db' = [d2 EXCEPT !.sessions[p] = @ + 1,
                         !.data[p] = @ + n,
                         !.asked = p,
                         !.handed = d2.engines[p]]
  /\ UNCHANGED <<store, worker, client, ret, history, rows, scope,
                 cleanWrites, functions, lookup, built, clock>>

\* ---------------------------------------------------------- specifications
WorkerStep(w) ==
  \/ GetJobId(w)
  \/ Wake(w)
  \/ ClaimSelect(w)
  \/ ClaimFlush(w)
  \/ Resolve(w)
  \/ Execute(w)
  \/ CompleteSelect(w)
  \/ CompleteFlush(w)

ClientStep(c) ==
  \/ \E call \in Calls : EnqueueStart(c, call)
  \/ EnqueueEnsureQueue(c)
  \/ EnqueueInsertJob(c)
  \/ \E id \in IdSpace : GetJobResult(c, id)

\* Producers calling enqueue and get_job_result, workers in run().
Next ==
  \/ \E w \in Workers : WorkerStep(w)
  \/ \E c \in Clients : ClientStep(c)

Spec == Init /\ [][Next]_vars

\* Producers that may share a queue name and may die inside enqueue, and one
\* worker.
InitProducers ==
  /\ InitStore
  /\ worker = [w \in RaceWorkers |-> NewWorker("A")]
  /\ client \in [Clients -> {NewClient(q) : q \in QueueNames}]
  /\ client["c1"].default_queue_name = "A"
  /\ InitSessions
  /\ InitSettings

NextProducers ==
  \/ \E c \in Clients : ClientStep(c)
  \/ \E c \in Clients : EnqueueCrash(c)
  \/ WorkerStep("w1")

SpecProducers == InitProducers /\ [][NextProducers]_vars

\* One worker, bound to queue "A"; one producer enqueues to "A" and the
\* other to "B".
InitSingle ==
  /\ InitStore
  /\ worker = [w \in RaceWorkers |-> NewWorker("A")]
  /\ client = [c \in Clients |-> NewClient(IF c = "c1" THEN "A" ELSE "B")]
  /\ InitSessions
  /\ InitSettings

NextSingle ==
  \/ WorkerStep("w1")
  \/ \E c \in Clients : ClientStep(c)

SpecSingle == InitSingle /\ [][NextSingle]_vars

\* The same while time passes.
NextClock ==
  \/ NextSingle
  \/ Tick

SpecClock == InitSingle /\ [][NextClock]_vars

\* The same with the worker's process scheduled again and again: run() is
\* the whole program of the worker process.
FairSingle == SpecSingle /\ WF_vars(WorkerStep("w1"))

\* `with get_session()` blocks that change objects and are left normally or
\* by an error.
NextSession ==
  \/ \E s \in Scopes : SessionOpen(s)
  \/ \E s \in Scopes, k \in Keys, v \in Vals : SessionChange(s, k, v)
  \/ \E s \in Scopes, error \in BOOLEAN : SessionExit(s, error)

SpecSession == InitSingle /\ [][NextSession]_vars

\* get_function called on the settings of any allow-list of up to MaxFuncs
\* functions.
AllowLists ==
  UNION {[1..n -> FuncObjs] : n \in 0..MaxFuncs}

InitRegistry ==
  /\ InitStore
  /\ worker = [w \in RaceWorkers |-> NewWorker("A")]
  /\ client = [c \in Clients |-> NewClient(IF c = "c1" THEN "A" ELSE "B")]
  /\ InitSessions
  /\ functions \in AllowLists
  /\ lookup = NoLookup
  /\ built = NotBuilt(TRUE)

NextRegistry == \E name \in LookupNames : CallGetFunction(name)

SpecRegistry == InitRegistry /\ [][NextRegistry]_vars

\* A settings class with any allow-list of up to MaxFuncs functions, or with
\* none declared, is instantiated and a worker is constructed with it.
InitConstruct ==
  /\ InitStore
  /\ worker = [w \in RaceWorkers |-> NewWorker("A")]
  /\ client = [c \in Clients |-> NewClient(IF c = "c1" THEN "A" ELSE "B")]
  /\ InitSessions
  /\ lookup = NoLookup
  /\ \E declared \in BOOLEAN :
       /\ built = NotBuilt(declared)
       /\ functions \in (IF declared THEN AllowLists ELSE {<<>>})

NextConstruct ==
  \/ NewSettings
  \/ \E q \in QueueNames : ConstructWorker(q)

SpecConstruct == InitConstruct /\ [][NextConstruct]_vars

\* Two workers bound to queue "A" and one producer, which enqueues
\* invocations to "A" that cannot be resolved, and one that can.
NextResolve ==
  \/ \E w \in Workers : WorkerStep(w)
  \/ \E call \in ResolveCalls : EnqueueStart("c1", call)
  \/ EnqueueEnsureQueue("c1")
  \/ EnqueueInsertJob("c1")

SpecResolve == InitSingle /\ [][NextResolve]_vars

\* Two workers bound to queue "A" and one producer, which enqueues to "A"
\* invocations of every kind: resolvable in a module and in a module of a
\* package, unresolvable, returning and raising.
NextLookup ==
  \/ \E w \in Workers : WorkerStep(w)
  \/ \E call \in LookupCalls : EnqueueStart("c1", call)
  \/ EnqueueEnsureQueue("c1")
  \/ EnqueueInsertJob("c1")

SpecLookup == InitSingle /\ [][NextLookup]_vars

\* Three workers bound to queue "A" and one producer, which enqueues one
\* invocation to "A"; the claim session records what it loaded.
RaceEnqueue(call) ==
  /\ JobIds = {}
  /\ EnqueueStart("c1", call)

RaceWorkerStep(w) ==
  \/ GetJobId(w)
  \/ Wake(w)
  \/ RaceClaimSelect(w)
  \/ ClaimFlush(w)
  \/ Resolve(w)
  \/ Execute(w)
  \/ CompleteSelect(w)
  \/ CompleteFlush(w)

NextRace ==
  \/ \E w \in RaceWorkers : RaceWorkerStep(w)
  \/ \E call \in RaceCalls : RaceEnqueue(call)
  \/ EnqueueEnsureQueue("c1")
  \/ EnqueueInsertJob("c1")

SpecRace == InitSingle /\ [][NextRace]_vars

\* Two workers bound to queue "A", each a process of its own that keeps
\* running, and one producer, which enqueues to "A" invocations that resolve
\* and return.
NextProgress ==
  \/ \E w \in Workers : WorkerStep(w)
  \/ \E call \in ProgressCalls : EnqueueStart("c1", call)
  \/ EnqueueEnsureQueue("c1")
  \/ EnqueueInsertJob("c1")

FairProgress ==
  /\ InitSingle
  /\ [][NextProgress]_vars
  /\ \A w \in Workers : WF_vars(WorkerStep(w))

\* The same with three workers and one job.
NextRaceProgress ==
  \/ \E w \in RaceWorkers : WorkerStep(w)
  \/ \E call \in ProgressCalls : RaceEnqueue(call)
  \/ EnqueueEnsureQueue("c1")
  \/ EnqueueInsertJob("c1")

FairRaceProgress ==
  /\ InitSingle
  /\ [][NextRaceProgress]_vars
  /\ \A w \in RaceWorkers : WF_vars(WorkerStep(w))

\* The ids _process_job is called with by hand: those of PENDING jobs and
\* those that carry no row.
ManualIds == {id \in IdSpace : id \in JobIds => jobs[id].status = PENDING}

\* A worker whose _process_job is called by hand, again and again, while the
\* producers enqueue and ask for results.
NextManual ==
  \/ \E id \in ManualIds : Process("w1", id)
  \/ ClaimSelect("w1")
  \/ ClaimFlush("w1")
  \/ Resolve("w1")
  \/ Execute("w1")
  \/ CompleteSelect("w1")
  \/ CompleteFlush("w1")
  \/ \E c \in Clients : ClientStep(c)

SpecManual == InitSingle /\ [][NextManual]_vars

\* One process calls get_engine and get_session in any order on two paths,
\* whose database files are new or hold a row of an earlier process.
InitDb ==
  /\ InitStore
  /\ worker = [w \in RaceWorkers |-> NewWorker("A")]
  /\ client = [c \in Clients |-> NewClient(IF c = "c1" THEN "A" ELSE "B")]
  /\ InitScopes
  /\ InitSettings
  /\ db \in {NewDb(data) : data \in [Paths -> 0..1]}

NextDb ==
  \E p \in Paths :
    \/ GetEngine(p)
    \/ \E n \in 0..1 : GetSession(p, n)

SpecDb == InitDb /\ [][NextDb]_vars

\* ------------------------------------------------------------------ claims
GotResult == ret # NoRet /\ ret.op = "get_job_result"

\* C1: at-most-one-claim -- of the workers that poll a job and then run the
\* claim session of _process_job on it, at most one claims it.
AtMostOneClaim ==
  \A j \in JobIds : Cardinality(claimers[j]) <= 1

\* C2: no double-processing -- the function of a job is invoked at most once
\* in total across all workers.
NoDoubleProcessing ==
  \A j \in JobIds : execs[j] <= 1

\* C3: status monotonicity -- the values a job's status takes form a prefix of
\* PENDING, RUNNING, COMPLETED or of PENDING, RUNNING, FAILED.
StatusMonotonic ==
  \A j \in JobIds :
    hist[j] \in { <<PENDING>>, <<PENDING, RUNNING>>,
                  <<PENDING, RUNNING, COMPLETED>>,
                  <<PENDING, RUNNING, FAILED>> }

\* C4: terminal states are absorbing -- no step changes the status of a job
\* that is COMPLETED or FAILED.
TerminalAbsorbing ==
  [][ \A j \in JobIds :
        jobs[j].status \in {COMPLETED, FAILED}
          => jobs'[j].status = jobs[j].status ]_vars

\* C5: result written once -- a job's result is null unless its status is
\* COMPLETED, and it is written at most once.
ResultWrittenOnce ==
  \A j \in JobIds :
    /\ jobs[j].result # PyNone => jobs[j].status = COMPLETED
    /\ resultWrites[j] <= 1

\* C6: queue isolation -- a worker only ever holds, claims or executes jobs
\* of its own queue, a job whose queue no worker is bound to stays untouched,
\* and no step of a worker changes a job of another queue.
Busy(w) == worker[w].pc \notin {"poll", "sleep"}
ServedQueues == {worker[w].queue_name : w \in Workers}
QueueIsolationState ==
  /\ \A w \in Workers :
       Busy(w) /\ worker[w].job_id \in JobIds
         => jobs[worker[w].job_id].queue_name = worker[w].queue_name
  /\ \A j \in JobIds :
       /\ \A w \in claimers[j] : worker[w].queue_name = jobs[j].queue_name
       /\ jobs[j].queue_name \notin ServedQueues
            => /\ jobs[j].status = PENDING
               /\ jobs[j].result = PyNone
               /\ execs[j] = 0
QueueIsolation ==
  /\ []QueueIsolationState
  /\ [][ \A w \in Workers :
           WorkerStep(w) =>
             \A j \in JobIds :
               jobs[j].queue_name # worker[w].queue_name
                 => jobs'[j] = jobs[j] ]_vars
\* A worker completed a job of its queue while a job of a queue that no
\* worker serves is still PENDING.
QueueIsolationWitness ==
  \E j, k \in JobIds :
    /\ jobs[j].status = COMPLETED
    /\ jobs[k].queue_name \notin ServedQueues
    /\ jobs[k].status = PENDING

\* C7: get_job_result on a job that is PENDING or RUNNING with a null result
\* returns None, raises nothing, is not held up by the job's state and
\* leaves the store as it is.
NotCompleted(row) ==
  row # NoRow /\ row.status \in {PENDING, RUNNING} /\ row.result = PyNone
GetBeforeCompletion ==
  /\ [](GotResult /\ NotCompleted(ret.seen) => ret.val = PyNone)
  /\ [](\A c \in Clients, id \in JobIds :
          client[c].pc = "idle" /\ NotCompleted(jobs[id])
            => ENABLED GetJobResult(c, id))
  /\ [][ \A c \in Clients, id \in IdSpace :
           GetJobResult(c, id) /\ NotCompleted(JobById(id))
             => /\ UNCHANGED store
                /\ ret'.val = PyNone ]_vars
\* The call returned None for a job that is RUNNING.
GetBeforeCompletionWitness ==
  /\ GotResult
  /\ ret.arg \in JobIds
  /\ jobs[ret.arg].status = RUNNING
  /\ ret.val = PyNone

\* C8 as stated: get_job_result on a COMPLETED job returns the value the
\* job's function returned.
GetReturnsValue ==
  GotResult /\ ret.seen # NoRow /\ ret.seen.status = COMPLETED
    => ret.val \in returned[ret.arg]
\* C8, amended: get_job_result on a COMPLETED job returns the pickled bytes
\* the worker stored; unpickling them gives a value that an invocation of
\* the job's function returned.
GetReturnsPickledValue ==
  GotResult /\ ret.seen # NoRow /\ ret.seen.status = COMPLETED
    => /\ IsBytes(ret.val)
       /\ Loads(ret.val) \in returned[ret.arg]
       /\ ret.val = jobs[ret.arg].result
\* The call returned the bytes of 3 for a completed add(1, b=2).
GetReturnsPickledValueWitness ==
  /\ GotResult
  /\ ret.seen # NoRow
  /\ ret.seen.status = COMPLETED
  /\ Loads(ret.seen.function).f = <<"mod", "add">>
  /\ ret.val = Dumps(PyInt(3))

\* C9: get_job_result with an id that no row carries raises the not-found
\* error (ValueError), returns neither None nor a value and leaves the store
\* as it is.
GetUnknownId ==
  /\ [](GotResult /\ ret.arg \notin JobIds => ret.val = PyErr("ValueError"))
  /\ [][ \A c \in Clients, id \in IdSpace \ JobIds :
           GetJobResult(c, id)
             => /\ UNCHANGED store
                /\ ret' = Returned("get_job_result", id, NoRow,
                                   PyErr("ValueError")) ]_vars
\* The call raised for an id while other ids carry rows.
GetUnknownIdWitness ==
  /\ GotResult
  /\ JobIds # {}
  /\ ret.arg \notin JobIds
  /\ IsErr(ret.val)

\* C10: the insert step of enqueue adds exactly one row: PENDING, null
\* result, the client's queue name, a payload that unpickles to the given
\* invocation, under an id no other row carries, and returns that id; the
\* other steps of enqueue add no row.
EnqueueInsertsOnePending ==
  [][ \A c \in Clients :
        /\ EnqueueInsertJob(c) =>
             \E id \in IdSpace \ JobIds :
               /\ DOMAIN jobs' = JobIds \cup {id}
               /\ \A j \in JobIds : jobs'[j] = jobs[j]
               /\ jobs'[id].status = PENDING
               /\ jobs'[id].result = PyNone
               /\ jobs'[id].queue_name = client[c].default_queue_name
               /\ IsBytes(jobs'[id].function)
               /\ Loads(jobs'[id].function) = client[c].call
               /\ ret' = Returned("enqueue", client[c].call, NoRow, PyStr(id))
        /\ (EnqueueEnsureQueue(c) \/ \E call \in Calls : EnqueueStart(c, call))
             => UNCHANGED jobs ]_vars
\* A second enqueue returned the id of its row, another row existing.
EnqueueInsertsOnePendingWitness ==
  /\ ret # NoRet
  /\ ret.op = "enqueue"
  /\ ~IsErr(ret.val)
  /\ ret.val.str \in JobIds
  /\ Cardinality(JobIds) = 2
  /\ jobs[ret.val.str].status = PENDING

\* C11: no orphaned job -- in every state, also while enqueue calls run
\* concurrently and after one died at any point, the queue_name of every job
\* row is the name of a queue row; the death of an enqueue changes no table,
\* so one that dies between its two sessions leaves its queue row and no job.
NoOrphanedJob ==
  /\ [](\A j \in JobIds : queues[jobs[j].queue_name] >= 1)
  /\ [][ \A c \in Clients : EnqueueCrash(c) => UNCHANGED store ]_vars
\* An enqueue died between its sessions: its queue has a row and no job,
\* while the other producer's job is stored.
NoOrphanedJobWitness ==
  \E c \in Clients :
    /\ client[c].pc = "crashed before insert"
    /\ queues[client[c].default_queue_name] = 1
    /\ \A j \in JobIds : jobs[j].queue_name # client[c].default_queue_name
    /\ JobIds # {}

\* C12: queue uniqueness -- whatever enqueue calls ran, interleaved or not,
\* a name that an enqueue got past its first session for has exactly one
\* queue row, no name ever has two, rows exist only for names a producer
\* enqueues to, and an enqueue to a name that has a row adds none.
QueueUnique ==
  /\ [](\A n \in QueueNames :
          /\ queues[n] <= 1
          /\ queues[n] = 1 => \E c \in Clients : client[c].default_queue_name = n)
  /\ [](\A c \in Clients :
          client[c].pc \in {"insert", "crashed before insert"}
            => queues[client[c].default_queue_name] = 1)
  /\ [](\A j \in JobIds : queues[jobs[j].queue_name] = 1)
  /\ [][ \A c \in Clients :
           EnqueueEnsureQueue(c) /\ queues[client[c].default_queue_name] >= 1
             => UNCHANGED queues ]_vars
\* Two first enqueues to the same new name ran concurrently: the creation of
\* the second was rejected and the name has one row.
QueueUniqueWitness ==
  /\ ret # NoRet
  /\ ret.op = "enqueue"
  /\ ret.val = PyErr("IntegrityError")
  /\ queues["A"] = 1
  /\ \E c \in Clients : client[c].pc = "insert"

\* C13: benign creation race -- an enqueue call that found the queue row
\* absent and lost the creation to a concurrent call raises nothing: every
\* enqueue call that returns hands back the id of the PENDING job it
\* inserted.
BenignCreationRace ==
  ret # NoRet /\ ret.op = "enqueue"
    => /\ ~IsErr(ret.val)
       /\ ret.val.str \in JobIds
       /\ jobs[ret.val.str].status = PENDING
       /\ given[ret.val.str] = ret.arg

\* The jobs of a queue, and the worker being inside _process_job.
JobsOf(q) == {j \in JobIds : jobs[j].queue_name = q}
InProcess(w) ==
  worker[w].pc \in {"claim", "claim_flush", "resolve", "execute",
                    "complete", "complete_flush"}
\* The job's function resolves and returns normally.
Succeeds(j) ==
  LET r == Deserialize(jobs[j].function) IN
    /\ ~IsErr(r)
    /\ \A v \in Outcomes(r.function, r.args, r.kwargs) : ~IsErr(v)
\* A poll of the single worker obtains a job of its queue that no earlier
\* poll obtained, and yields empty exactly when every job of its queue has
\* been completed by one iteration; jobs of other queues stay PENDING.
SinglePolls ==
  /\ [][ GetJobId("w1") =>
           /\ worker'["w1"].pc = "claim" =>
                LET j == worker'["w1"].job_id IN
                  /\ j \in JobsOf("A")
                  /\ jobs[j].status = PENDING
                  /\ execs[j] = 0
                  /\ claimers[j] = {}
           /\ worker'["w1"].pc = "sleep" <=>
                \A j \in JobsOf("A") :
                  jobs[j].status = COMPLETED /\ execs[j] = 1 ]_vars
  /\ [](\A j \in JobIds \ JobsOf("A") :
          jobs[j].status = PENDING /\ jobs[j].result = PyNone /\ execs[j] = 0)
\* Every job an iteration obtained is COMPLETED once that iteration is over.
SingleCompletes ==
  \A j \in JobsOf("A") :
    jobs[j].status # PENDING /\ ~(InProcess("w1") /\ worker["w1"].job_id = j)
      => jobs[j].status = COMPLETED /\ execs[j] = 1

Encodings(call) ==
  {Dumps(v) : v \in {x \in Outcomes(call.f[Len(call.f)], call.args, call.kwargs) :
                       ~IsErr(x)}}

\* C15: when _process_job, entered on a job that it loaded as PENDING, has
\* resolved the function and the call returned, the job is COMPLETED at the
\* end of _process_job and its result is the encoding of a value of the
\* function called with the enqueued args and kwargs.
ProcessCompletes ==
  [][ \A w \in RaceWorkers :
        CompleteFlush(w) /\ w \in sawPending
          => LET j == worker[w].job_id IN
               /\ jobs'[j].status = COMPLETED
               /\ jobs'[j].result \in Encodings(given[j]) ]_vars

\* C16: execution error -- once an invocation of a job's function raised,
\* the job is RUNNING with a null result in every later state, no worker
\* obtains it from a poll or invokes its function again, and the worker whose
\* invocation raised has left run() with that error.
ExecutionErrorSticks ==
  /\ [](\A j \in JobIds :
          raised[j] >= 1 => jobs[j].status = RUNNING /\ jobs[j].result = PyNone)
  /\ [][ \A j \in JobIds :
           raised[j] >= 1
             => /\ execs'[j] = execs[j]
                /\ \A w \in RaceWorkers :
                     GetJobId(w) => worker'[w].job_id # j ]_vars
  /\ [][ \A w \in RaceWorkers :
           Execute(w) /\ raised' # raised
             => /\ worker'[w].pc = "crashed"
                /\ worker'[w].err = "ValueError" ]_vars

ScopedSessionSemantics ==
  /\ [][ \A s \in Scopes :
           SessionExit(s, FALSE)
             => \A k \in Keys :
                  scope[s].pending[k] # 0 => rows'[k] = scope[s].pending[k] ]_vars
  /\ [][ \A s \in Scopes : SessionExit(s, TRUE) => rows' = rows ]_vars
  /\ [](\A k \in Keys : rows[k] # 0 => <<k, rows[k]>> \in cleanWrites)
  /\ [][ \A s \in Scopes, error \in BOOLEAN :
           SessionExit(s, error) => ~scope'[s].open ]_vars
  /\ [](\A s \in Scopes : ~scope[s].open => ENABLED SessionOpen(s))

RegistryLookup ==
  lookup # NoLookup =>
    LET named == {i \in 1..Len(functions) : functions[i].name = lookup.name} IN
      IF named # {}
        THEN \E i \in named : lookup.val = functions[i]
        ELSE lookup.val = PyErr("ValueError")
\* "add" was looked up in example.py's allow-list, which holds add and not
\* the other function of that name, and add was returned.
RegistryLookupWitness ==
  /\ functions = ExampleFunctions
  /\ lookup # NoLookup
  /\ lookup.name = "add"
  /\ lookup.val = Add

Resolvable(path) ==
  /\ Len(path) >= 2
  /\ SubSeq(path, 1, Len(path) - 1) \in Modules
  /\ path[Len(path)] \in ModuleAttrs(SubSeq(path, 1, Len(path) - 1))

Processing ==
  {"claim", "claim_flush", "resolve", "execute", "complete", "complete_flush"}

RunLoopStep(w) ==
  /\ GetJobId(w) =>
       IF PollMatches(worker[w].queue_name) = {}
         THEN worker'[w].pc = "sleep" /\ UNCHANGED store
         ELSE /\ worker'[w].pc = "claim"
              /\ worker'[w].job_id \in PollMatches(worker[w].queue_name)
              /\ UNCHANGED store
  /\ worker[w].pc = "sleep" /\ worker'[w] # worker[w] =>
       worker'[w].pc = "poll" /\ UNCHANGED store
  /\ worker[w].pc \in Processing /\ worker'[w] # worker[w] =>
       /\ worker'[w].job_id = worker[w].job_id
            \/ worker'[w].pc = "poll"
       /\ \/ worker'[w].pc \in Processing \cup {"crashed"}
          \/ /\ worker'[w].pc = "poll"
             /\ worker[w].pc = "complete_flush"
             /\ w \in completers'[worker[w].job_id]
       /\ \A j \in JobIds \ {worker[w].job_id} : jobs'[j] = jobs[j]

RunLoop ==
  /\ [][RunLoopStep("w1")]_vars
  /\ [](worker["w1"].pc # "crashed" => ENABLED WorkerStep("w1"))
  /\ []<>(worker["w1"].pc \in {"poll", "crashed"})
\* The worker is back at the poll after it processed a job to its end, and
\* another job is waiting.
RunLoopWitness ==
  /\ worker["w1"].pc = "poll"
  /\ \E j \in JobIds : "w1" \in completers[j]
  /\ PollMatches("A") # {}

\* C24: execute outside any transaction -- a worker that decodes and
\* resolves, or invokes the function, is in no session: the first session was
\* left before the resolve step, the second is entered only after the
\* function returned, and a _process_job call that reaches its end has
\* entered two sessions.
ExecuteOutsideTransaction ==
  /\ [](\A w \in Workers :
          /\ worker[w].pc \in {"resolve", "execute", "complete"}
               => ~worker[w].in_session /\ worker[w].sessions = 1
          /\ worker[w].in_session
               => worker[w].pc \in {"claim_flush", "complete_flush"})
  /\ [][ \A w \in Workers :
           /\ Resolve(w) \/ Execute(w)
                => ~worker[w].in_session /\ ~worker'[w].in_session
           /\ CompleteSelect(w)
                => worker[w].result \in returned[worker[w].job_id]
           /\ CompleteFlush(w)
                => worker[w].in_session /\ worker[w].sessions = 2 ]_vars
\* A worker is about to invoke the function, in no session, and the row of
\* its job holds the RUNNING its first session committed.
ExecuteOutsideTransactionWitness ==
  \E w \in Workers :
    /\ worker[w].pc = "execute"
    /\ ~worker[w].in_session
    /\ worker[w].sessions = 1
    /\ jobs[worker[w].job_id].status = RUNNING

\* C25: one job at a time -- a worker has at most one job in flight, the
\* job its _process_job call is on; a worker with a job in flight neither
\* polls nor claims; its job leaves flight only by the flush of the worker's
\* second session, which leaves COMPLETED in the row it loaded (an error
\* that left run() leaves the job in flight for good).
InFlightOf(w) == {j \in JobIds : w \in claimers[j] \ completers[j]}

OneJobAtATime ==
  /\ [](\A w \in Workers : \A j \in InFlightOf(w) :
          /\ j = worker[w].job_id
          /\ worker[w].pc \in
               {"resolve", "execute", "complete", "complete_flush", "crashed"})
  /\ [][ \A w \in Workers :
           /\ GetJobId(w) \/ ClaimSelectRow(w) \/ ClaimFlush(w)
                => InFlightOf(w) = {}
           /\ InFlightOf(w)' # InFlightOf(w) /\ InFlightOf(w) # {}
                => /\ CompleteFlush(w)
                   /\ jobs[worker[w].job_id] = worker[w].loaded
                        => jobs'[worker[w].job_id].status = COMPLETED ]_vars
\* A worker has a job in flight, past its claim, while another job of its
\* queue is PENDING.
OneJobAtATimeWitness ==
  \E w \in Workers :
    /\ InFlightOf(w) # {}
    /\ worker[w].pc = "execute"
    /\ PollMatches(worker[w].queue_name) # {}

\* C26: poll selects correctly -- _get_job_id hands back the id of a job
\* that in the poll's session is PENDING and of the worker's queue, never
\* one that is RUNNING, COMPLETED or FAILED, and hands back None exactly when
\* there is no such job.
PollSelectsCorrectly ==
  [][ \A w \in Workers :
        GetJobId(w) =>
          IF \E j \in JobIds : /\ jobs[j].status = PENDING
                               /\ jobs[j].queue_name = worker[w].queue_name
            THEN /\ worker'[w].pc = "claim"
                 /\ worker'[w].job_id \in JobIds
                 /\ jobs[worker'[w].job_id].status = PENDING
                 /\ jobs[worker'[w].job_id].status
                      \notin {RUNNING, COMPLETED, FAILED}
                 /\ jobs[worker'[w].job_id].queue_name = worker[w].queue_name
            ELSE /\ worker'[w].pc = "sleep"
                 /\ worker'[w].job_id = 0 ]_vars
\* A poll handed back a PENDING job of the worker's queue while the other
\* job of that queue is not PENDING any more.
PollSelectsCorrectlyWitness ==
  \E w \in Workers :
    /\ worker[w].pc = "claim"
    /\ jobs[worker[w].job_id].status = PENDING
    /\ \E j \in JobIds \ {worker[w].job_id} :
         /\ jobs[j].queue_name = worker[w].queue_name
         /\ jobs[j].status \in {RUNNING, COMPLETED}

\* C27: payload read under claim -- when a worker takes a job's payload for
\* execution (line 45, in the first session, after the flush), the job's
\* status in the table is RUNNING; no payload is taken of a job that is
\* PENDING.
PayloadReadUnderClaim ==
  [][ \A w \in Workers :
        ClaimFlush(w) =>
          /\ worker'[w].data = jobs'[worker[w].job_id].function
          /\ jobs'[worker[w].job_id].status # PENDING
          /\ jobs'[worker[w].job_id].status = RUNNING ]_vars

\* The part of C27 that holds: the payload is never taken of a PENDING job.
PayloadNeverReadPending ==
  [][ \A w \in Workers :
        ClaimFlush(w) =>
          /\ worker'[w].data = jobs'[worker[w].job_id].function
          /\ jobs'[worker[w].job_id].status \in {RUNNING, COMPLETED} ]_vars

\* C28: FAILED is never written -- no job has or ever had the status FAILED,
\* whether its function could not be resolved, raised or returned, and
\* however the workers interleave.
FailedNeverWritten ==
  \A j \in JobIds :
    /\ jobs[j].status # FAILED
    /\ \A i \in 1..Len(hist[j]) : hist[j][i] # FAILED
\* Both workers claimed a job whose function raised, and the other job was
\* completed or left a worker's run() with a name that cannot be resolved.
FailedNeverWrittenWitness ==
  \E j1, j2 \in JobIds :
    /\ j1 # j2
    /\ raised[j1] > 0
    /\ \/ jobs[j2].status = COMPLETED
       \/ \E w \in Workers : /\ worker[w].pc = "crashed"
                              /\ worker[w].job_id = j2
                              /\ given[j2] \in UnresolvableCalls
    /\ Cardinality(claimers[j1]) = 2

\* C29: get_job_result hands back the result field of the job's row as it
\* is in the table, and changes nothing; for a COMPLETED job that is the
\* pickled value the worker stored, which unpickles to a value the job's
\* function returned.
ResultFieldUnchanged ==
  [][ \A c \in Clients, id \in JobIds :
        GetJobResult(c, id) =>
          /\ ret'.val = jobs[id].result
          /\ ret'.val = jobs'[id].result
          /\ UNCHANGED store
          /\ jobs[id].status = COMPLETED =>
               \E v \in returned[id] : /\ ret'.val = Dumps(v)
                                       /\ Loads(ret'.val) = v ]_vars
\* The call handed back the stored bytes of a COMPLETED job while the other
\* job has no result yet.
ResultFieldUnchangedWitness ==
  /\ GotResult
  /\ ret.arg \in JobIds
  /\ jobs[ret.arg].status = COMPLETED
  /\ ret.val = jobs[ret.arg].result
  /\ IsBytes(ret.val)
  /\ \E j \in JobIds \ {ret.arg} : jobs[j].result = PyNone

\* C30: updated_at tracks mutations -- every step that changes a job's
\* status or result sets the job's updated_at to the time of the step, so
\* that updated_at is never earlier than created_at and, once time passed
\* between the insert and the completion, later than it.
UpdatedAtTracksMutations ==
  /\ [](\A j \in JobIds : stamps[j].updated_at >= stamps[j].created_at)
  /\ [][ \A j \in JobIds :
           jobs'[j].status # jobs[j].status \/ jobs'[j].result # jobs[j].result
             => stamps'[j].updated_at = clock ]_vars

\* What the code does instead: updated_at stays what the insert made it.
UpdatedAtIsCreatedAt ==
  \A j \in JobIds : stamps[j].updated_at = stamps[j].created_at

\* C31: immutable job fields -- no step changes the queue_name or the
\* function payload of an existing job row, and every row stays under its
\* id; the flush of the claim changes at most the status of one row, the
\* flush of the completion at most the status and the result of one row.
ImmutableJobFields ==
  [][ \A j \in JobIds :
        /\ j \in DOMAIN jobs'
        /\ jobs'[j].queue_name = jobs[j].queue_name
        /\ jobs'[j].function = jobs[j].function
        /\ jobs'[j] # jobs[j] =>
             \E w \in Workers :
               /\ worker'[w] # worker[w]
               /\ worker[w].job_id = j
               /\ worker[w].pc \in {"claim_flush", "complete_flush"}
               /\ worker[w].pc = "claim_flush"
                    => jobs'[j].result = jobs[j].result ]_vars
\* A worker's claim was flushed on a row that another worker had completed,
\* while another job is PENDING.
ImmutableJobFieldsWitness ==
  \E w \in Workers :
    /\ worker[w].pc = "resolve"
    /\ jobs[worker[w].job_id].result # PyNone
    /\ \E j \in JobIds \ {worker[w].job_id} : jobs[j].status = PENDING

\* C32: jobs and queues are never deleted -- no step takes a row out of
\* table jobs or out of table queues, and from a get_job_result call that
\* found the row of an id on, every get_job_result call on that id finds it.
NeverDeleted ==
  /\ [][ /\ JobIds \subseteq DOMAIN jobs'
         /\ \A q \in QueueNames : queues'[q] >= queues[q] ]_vars
  /\ \A id \in IdSpace :
       [](GotResult /\ ret.arg = id /\ ret.seen # NoRow
            => [](GotResult /\ ret.arg = id
                    => ret.seen # NoRow /\ ~IsErr(ret.val)))
\* get_job_result found a job that has been COMPLETED, in a table of two
\* jobs and two queues.
NeverDeletedWitness ==
  /\ GotResult
  /\ ret.seen # NoRow
  /\ ret.seen.status = COMPLETED
  /\ Cardinality(JobIds) = 2
  /\ \A q \in QueueNames : queues[q] = 1

\* C33: progress -- with workers that keep running on queue "A" and
\* functions that resolve and return, every job enqueued to "A" is at some
\* later time COMPLETED with a result, also when the workers race on it.
Progress ==
  \A id \in IdSpace :
    [](id \in JobIds
         => <>(/\ id \in JobIds
               /\ jobs[id].status = COMPLETED
               /\ jobs[id].result # PyNone))

\* Both workers claimed one job, and both jobs are COMPLETED with a result.
ProgressWitness ==
  /\ Cardinality(JobIds) = 2
  /\ \A j \in JobIds : jobs[j].status = COMPLETED /\ jobs[j].result # PyNone
  /\ \E j \in JobIds : claimers[j] = Workers

\* C33, stronger: the job is COMPLETED for good from some time on.
ProgressForGood ==
  \A id \in IdSpace :
    [](id \in JobIds
         => <>[](/\ id \in JobIds
                 /\ jobs[id].status = COMPLETED
                 /\ jobs[id].result # PyNone))

\* C34: single-worker exactly-once -- with one worker in run() on queue "A",
\* whatever the producers do meanwhile, a job of "A" is never invoked twice
\* and its status history is a prefix of PENDING, RUNNING, COMPLETED; a job
\* of "A" whose function returns is, unless an error left the worker's
\* run(), in the end COMPLETED after exactly one invocation and exactly
\* that history.
ExactlyOnceDone(j) ==
  /\ jobs[j].status = COMPLETED
  /\ execs[j] = 1
  /\ hist[j] = <<PENDING, RUNNING, COMPLETED>>

PollIsReadOnly ==
  /\ [][ /\ \A w \in RaceWorkers :
              GetJobId(w) =>
                /\ UNCHANGED store
                /\ worker'[w].pc = "claim"
                     => jobs'[worker'[w].job_id].status = PENDING
         /\ \A j \in JobIds :
              jobs[j].status = PENDING /\ jobs'[j].status # PENDING
                => \E w \in RaceWorkers : /\ worker[w].pc = "claim_flush"
                                          /\ worker[w].job_id = j
                                          /\ worker'[w].pc = "resolve" ]_vars
  /\ [](\A w, w2 \in RaceWorkers :
          /\ worker[w].pc = "claim"
          /\ jobs[worker[w].job_id].status = PENDING
          /\ worker[w2].pc = "poll"
          /\ worker[w2].queue_name = worker[w].queue_name
          => ENABLED (GetJobId(w2) /\ worker'[w2].job_id = worker[w].job_id))
\* Three workers polled the same job, which is still PENDING.
PollIsReadOnlyWitness ==
  /\ \A w \in RaceWorkers : worker[w].pc = "claim" /\ worker[w].job_id = 1
  /\ jobs[1].status = PENDING

\* C36: process on an unknown id -- _process_job on an id that no row
\* carries raises (AttributeError) in its first session, with no table
\* changed; no function is resolved or invoked for such an id.
ProcessUnknownId ==
  /\ [][ \A w \in Workers :
           /\ worker[w].pc = "claim"
           /\ worker[w].job_id \notin JobIds
           /\ worker'[w] # worker[w]
           => /\ worker'[w].pc = "crashed"
              /\ worker'[w].err = "AttributeError"
              /\ worker'[w].job_id = worker[w].job_id
              /\ UNCHANGED <<store, execs, hist>> ]_vars
  /\ [](\A w \in Workers :
          worker[w].pc \in Processing \ {"claim"} => worker[w].job_id \in JobIds)
\* _process_job raised on an id without a row, next to a table that holds
\* a job.
ProcessUnknownIdWitness ==
  \E w \in Workers :
    /\ worker[w].pc = "crashed"
    /\ worker[w].err = "AttributeError"
    /\ worker[w].job_id \notin JobIds
    /\ JobIds # {}

\* C37: in one process, over any sequence of get_engine and get_session
\* calls, the tables of a path are created at most once and only when no
\* session was made on it yet, a path that has an engine keeps that engine
\* and every call is handed the engine of its path, and the rows a database
\* holds are never dropped: a call leaves them, a session block adds its own.
SetupStep ==
  /\ db'.handed = db'.engines[db'.asked]
  /\ \A p \in Paths :
       /\ db.engines[p] # 0 => db'.engines[p] = db.engines[p]
       /\ db'.creates[p] # db.creates[p] => db.sessions[p] = 0
       /\ db'.data[p] >= db.data[p]
       /\ db'.sessions[p] = db.sessions[p] => db'.data[p] = db.data[p]
       /\ db.schema[p] => db'.schema[p]

IdempotentSetup ==
  /\ [](\A p \in Paths : db.creates[p] <= 1)
  /\ [][SetupStep]_vars

IdempotentSetupWitness ==
  \E p \in Paths :
    /\ db.sessions[p] >= 2
    /\ db.creates[p] = 1
    /\ db.data[p] >= 2
    /\ db.asked # p
    /\ db.handed = db.engines[db.asked]
    /\ db.engines[p] # db.handed

====
